---- MODULE Spec2Model ----
(***************************************************************************)
(* FHIRBrush frontend: the classifier and graph mapper of fhirToNodes.ts,  *)
(* the severity ordering of PatientDots.tsx and the canvas state machine   *)
(* of App.tsx (patient activation, bundle load, observation polling).      *)
(*                                                                         *)
(* Conventions of the translation                                          *)
(*  - An optional field (TypeScript `f?: T`, read through `?.`) is a       *)
(*    sequence: <<>> when absent, <<v>> when present.                      *)
(*  - Lab values are in tenths of the unit, so the cutoff 1.5 is 15.       *)
(*  - A node identifier `${prefix}-${id}` is the pair <<prefix, id>>; the  *)
(*    five prefixes differ in their first letter, so the pair and the      *)
(*    string identify the same nodes.                                      *)
(*  - A timestamp is the number Date.getTime() gives for it.               *)
(***************************************************************************)
EXTENDS Integers, Sequences, FiniteSets, TLC

VARIABLES
  pc,                  \* which operation the harness of a pure function has run
  obs,                 \* isAbnormal: the observation classified
  abnormal,            \* isAbnormal: <<>> before the call, <<result>> after
  patients,            \* PatientDots: the `patients` prop
  displayedDots,       \* PatientDots: the `sorted` list that is rendered
  bundle,              \* fhirToGraph: the bundle argument
  alreadyMaterialized, \* fhirToGraph: the existingNodeIds argument
  delta,               \* fhirToGraph: the {nodes, edges} returned
  backendStatus,       \* App: useState backendStatus
  activePid,           \* App: useState activePid
  severityList,        \* App: useState severityList
  nodes,               \* App: useNodesState
  edges,               \* App: useEdgesState
  existingNodeIds,     \* App: useRef existingNodeIds (the Materialized Set)
  simStepRef,          \* App: useRef simStepRef
  intervalId,          \* App: the running setInterval timers (their closure's pid)
  bundleFetches,       \* App: /fhir requests in flight
  simFetches,          \* App: /simulate/next requests in flight
  activation,          \* history: number of patient activations so far
  severityFetch,       \* App: whether the /patients/severity request is in flight
  ticks,               \* history: number of timer ticks so far
  delivered            \* history: the messages the current activation's poll received
                       \* and the poll errors logged since the activation

classifyVars == <<obs, abnormal>>
rankVars == <<patients, displayedDots>>
mapVars == <<bundle, alreadyMaterialized, delta>>
appVars == <<backendStatus, activePid, severityList, nodes, edges, existingNodeIds,
             simStepRef, intervalId, bundleFetches, simFetches, activation,
             severityFetch, ticks, delivered>>
vars == <<pc, classifyVars, rankVars, mapVars, appVars>>

----------------------------------------------------------------------------
(* Generic helpers *)

Range(s) == {s[i] : i \in 1..Len(s)}

Min(a, b) == IF a < b THEN a ELSE b

\* s.slice(0, n)
Slice0(s, n) == SubSeq(s, 1, Min(n, Len(s)))

\* Array.prototype.sort with a comparator that subtracts numeric keys: the
\* indices of `keys` in ascending key order, equal keys in index order (the
\* sort is stable since ES2019).
RECURSIVE InsertIndex(_, _, _)
InsertIndex(order, keys, i) ==
  IF order = <<>> THEN <<i>>
  ELSE IF keys[Head(order)] <= keys[i]
       THEN <<Head(order)>> \o InsertIndex(Tail(order), keys, i)
       ELSE <<i>> \o order

RECURSIVE SortOrderUpTo(_, _)
SortOrderUpTo(keys, n) ==
  IF n = 0 THEN <<>> ELSE InsertIndex(SortOrderUpTo(keys, n - 1), keys, n)

\* seeded fault: equal keys come out in reverse index order
RECURSIVE InsertIndexUnstable(_, _, _)
InsertIndexUnstable(order, keys, i) ==
  IF order = <<>> THEN <<i>>
  ELSE IF keys[Head(order)] < keys[i]
       THEN <<Head(order)>> \o InsertIndexUnstable(Tail(order), keys, i)
       ELSE <<i>> \o order

RECURSIVE SortOrderUnstableUpTo(_, _)
SortOrderUnstableUpTo(keys, n) ==
  IF n = 0 THEN <<>>
  ELSE InsertIndexUnstable(SortOrderUnstableUpTo(keys, n - 1), keys, n)

JsSortUnstable(s, keys) ==
  LET order == SortOrderUnstableUpTo(keys, Len(s))
  IN [k \in 1..Len(s) |-> s[order[k]]]

\* [...s].sort((a, b) => key(a) - key(b)): a new array, s itself is untouched
JsSort(s, keys) ==
  LET order == SortOrderUpTo(keys, Len(s))
  IN [k \in 1..Len(s) |-> s[order[k]]]

----------------------------------------------------------------------------
(* fhirToNodes.ts: THRESHOLDS, loincCode, isAbnormal *)

CREATININE == "2160-0"
POTASSIUM == "2823-3"
EGFR == "33914-3"
HBA1C == "4548-4"
BUN == "3094-0"

\* in tenths: 1.5, 5.5, 30, 9.0, 40
THRESHOLDS ==
  (CREATININE :> 15) @@ (POTASSIUM :> 55) @@ (EGFR :> 300) @@ (HBA1C :> 90)
    @@ (BUN :> 400)

\* obs.code?.coding?.[0]?.code ?? ''
loincCode(o) == IF o.coding = <<>> THEN "" ELSE o.coding[1]

\* seeded fault: the eGFR rule alerts above its cutoff like the others
isAbnormalNoDirection(o) ==
  LET code == loincCode(o)
  IN IF o.valueQuantity = <<>> \/ code = "" THEN FALSE
     ELSE IF code \notin DOMAIN THRESHOLDS THEN FALSE
     ELSE o.valueQuantity[1] > THRESHOLDS[code]

\* seeded fault: an unknown code falls back to the creatinine cutoff
isAbnormalFailOpen(o) ==
  LET code == loincCode(o)
  IN IF o.valueQuantity = <<>> THEN FALSE
     ELSE IF code \notin DOMAIN THRESHOLDS
          THEN o.valueQuantity[1] > THRESHOLDS[CREATININE]
     ELSE IF code = EGFR THEN o.valueQuantity[1] < THRESHOLDS[code]
     ELSE o.valueQuantity[1] > THRESHOLDS[code]

isAbnormal(o) ==
  LET code == loincCode(o)
  IN IF o.valueQuantity = <<>> \/ code = "" THEN FALSE
     ELSE IF code \notin DOMAIN THRESHOLDS THEN FALSE
     ELSE IF code = EGFR THEN o.valueQuantity[1] < THRESHOLDS[code]
     ELSE o.valueQuantity[1] > THRESHOLDS[code]

----------------------------------------------------------------------------
(* PatientDots.tsx: the severity ordering *)

\* const order = { red: 0, orange: 1, green: 2 }
order == ("red" :> 0) @@ ("orange" :> 1) @@ ("green" :> 2)

\* seeded fault: equal severities are not kept in input order
PatientDotsSortedUnstable(ps) ==
  JsSortUnstable(ps, [i \in 1..Len(ps) |-> order[ps[i].severity]])

\* const sorted = [...patients].sort((a, b) => order[a.severity] - order[b.severity])
PatientDotsSorted(ps) ==
  JsSort(ps, [i \in 1..Len(ps) |-> order[ps[i].severity]])

----------------------------------------------------------------------------
(* fhirToNodes.ts: fhirToGraph *)

\* new Date(o.effectiveDateTime ?? 0).getTime()
TimeOf(o) == IF o.effectiveDateTime = <<>> THEN 0 ELSE o.effectiveDateTime[1]

\* const patientId = `patient-${bundle.patient.id}`
PatientNodeId(b) == <<"patient", b.patient.id>>

Indices(s) == [i \in 1..Len(s) |-> i]

\* the positions of `items` that forEach does not skip:
\* if (existingNodeIds.has(nid)) return
KeptIndices(items, prefix, S) ==
  LET Fresh(i) == <<prefix, items[i].id>> \notin S
  IN SelectSeq(Indices(items), Fresh)

SatelliteEdge(b, nid, anim) ==
  [id |-> <<"e", PatientNodeId(b), nid>>, source |-> PatientNodeId(b),
   target |-> nid, animated |-> anim]

patientNodes(b, S) ==
  IF PatientNodeId(b) \in S THEN <<>>
  ELSE << [id |-> PatientNodeId(b), background |-> "#1d4ed8",
           position |-> <<600, 400>>, live |-> FALSE] >>

conditionNode(c, i) ==
  [id |-> <<"condition", c.id>>, background |-> "#ea580c",
   position |-> <<60, 80 + (i - 1) * 110>>, live |-> FALSE]

conditionNodes(b, S) ==
  LET kept == KeptIndices(b.conditions, "condition", S)
  IN [k \in 1..Len(kept) |-> conditionNode(b.conditions[kept[k]], kept[k])]

conditionEdges(b, S) ==
  LET kept == KeptIndices(b.conditions, "condition", S)
  IN [k \in 1..Len(kept) |->
        SatelliteEdge(b, <<"condition", b.conditions[kept[k]].id>>, FALSE)]

\* seeded fault: the comparator is a - b, oldest first
sortedOldestFirst(b) ==
  JsSort(b.observations,
         [i \in 1..Len(b.observations) |-> TimeOf(b.observations[i])])

\* seeded fault: observations of equal time come out in reverse listing order
sortedUnstable(b) ==
  JsSortUnstable(b.observations,
                 [i \in 1..Len(b.observations) |-> 0 - TimeOf(b.observations[i])])

\* const sorted = [...bundle.observations].sort((a, b) => time(b) - time(a))
sorted(b) ==
  JsSort(b.observations,
         [i \in 1..Len(b.observations) |-> 0 - TimeOf(b.observations[i])])

\* const displayed = sorted.slice(0, 12)
displayed(b) == Slice0(sorted(b), 12)

observationNode(o, i) ==
  [id |-> <<"obs", o.id>>,
   background |-> IF isAbnormal(o) THEN "#dc2626" ELSE "#16a34a",
   position |-> <<1000 + ((i - 1) \div 6) * 220, ((i - 1) % 6) * 100 + 80>>,
   live |-> FALSE]

observationNodes(b, S) ==
  LET shown == displayed(b)
      kept == KeptIndices(shown, "obs", S)
  IN [k \in 1..Len(kept) |-> observationNode(shown[kept[k]], kept[k])]

observationEdges(b, S) ==
  LET shown == displayed(b)
      kept == KeptIndices(shown, "obs", S)
  IN [k \in 1..Len(kept) |->
        SatelliteEdge(b, <<"obs", shown[kept[k]].id>>, isAbnormal(shown[kept[k]]))]

medicationNode(m, i) ==
  [id |-> <<"med", m.id>>, background |-> "#7c3aed",
   position |-> <<200 + (i - 1) * 180, 780>>, live |-> FALSE]

medicationNodes(b, S) ==
  LET kept == KeptIndices(b.medications, "med", S)
  IN [k \in 1..Len(kept) |-> medicationNode(b.medications[kept[k]], kept[k])]

\* seeded fault: the medication block pushes its edge before the skip test
medicationEdgesUnguarded(b, S) ==
  [k \in 1..Len(b.medications) |->
     SatelliteEdge(b, <<"med", b.medications[k].id>>, FALSE)]

medicationEdges(b, S) ==
  LET kept == KeptIndices(b.medications, "med", S)
  IN [k \in 1..Len(kept) |->
        SatelliteEdge(b, <<"med", b.medications[kept[k]].id>>, FALSE)]

encounterNode(enc, i) ==
  [id |-> <<"enc", enc.id>>, background |-> "#6b7280",
   position |-> <<0 - 200, 100 + (i - 1) * 120>>, live |-> FALSE]

\* seeded fault: the encounter block takes every encounter
encounterNodesUncapped(b, S) ==
  LET kept == KeptIndices(b.encounters, "enc", S)
  IN [k \in 1..Len(kept) |-> encounterNode(b.encounters[kept[k]], kept[k])]

\* seeded fault: the encounter block has no skip test
encounterNodesUnguarded(b, S) ==
  LET shown == Slice0(b.encounters, 5)
  IN [k \in 1..Len(shown) |-> encounterNode(shown[k], k)]

\* bundle.encounters.slice(0, 5).forEach(...)
encounterNodes(b, S) ==
  LET shown == Slice0(b.encounters, 5)
      kept == KeptIndices(shown, "enc", S)
  IN [k \in 1..Len(kept) |-> encounterNode(shown[kept[k]], kept[k])]

encounterEdges(b, S) ==
  LET shown == Slice0(b.encounters, 5)
      kept == KeptIndices(shown, "enc", S)
  IN [k \in 1..Len(kept) |->
        SatelliteEdge(b, <<"enc", shown[kept[k]].id>>, FALSE)]

fhirToGraph(b, S) ==
  [nodes |-> patientNodes(b, S) \o conditionNodes(b, S) \o observationNodes(b, S)
               \o medicationNodes(b, S) \o encounterNodes(b, S),
   edges |-> conditionEdges(b, S) \o observationEdges(b, S)
               \o medicationEdges(b, S) \o encounterEdges(b, S)]

NodeIds(ns) == {ns[i].id : i \in 1..Len(ns)}

----------------------------------------------------------------------------
(* Inputs of the pure functions, and the specifications that call them *)

MaxValue == 401          \* lab values 0..MaxValue, in tenths
MaxPatients == 4         \* length of the severity list
MaxObservations == 13    \* observations of a bundle
MaxConditions == 1
MaxMedications == 1
MaxEncounters == 6

NoObservation == [id |-> "", coding |-> <<>>, effectiveDateTime |-> <<>>,
                  valueQuantity |-> <<>>]
NoBundle == [patient |-> [id |-> ""], conditions |-> <<>>, observations |-> <<>>,
             medications |-> <<>>, encounters |-> <<>>]
NoDelta == [nodes |-> <<>>, edges |-> <<>>]

DEFAULT_PID == "synth-001"
Pids == {"synth-001", "synth-002"}

classifyIdle == obs = NoObservation /\ abnormal = <<>>
rankIdle == patients = <<>> /\ displayedDots = <<>>
mapIdle == bundle = NoBundle /\ alreadyMaterialized = {} /\ delta = NoDelta
appIdle ==
  /\ backendStatus = "checking" /\ activePid = DEFAULT_PID /\ severityList = <<>>
  /\ nodes = <<>> /\ edges = <<>> /\ existingNodeIds = {} /\ simStepRef = 0
  /\ intervalId = {} /\ bundleFetches = {} /\ simFetches = {}
  /\ activation = 0 /\ severityFetch = FALSE /\ ticks = 0 /\ delivered = <<>>

(* isAbnormal *)

UnknownCode == "9999-9"
LabCodes == DOMAIN THRESHOLDS \cup {UnknownCode, ""}
Codings == {<<>>} \cup {<<c>> : c \in LabCodes}
\* valueQuantity?: { value: number }: absent, or a number
Quantities == {<<>>} \cup {<<v>> : v \in 0..MaxValue}

InitClassify ==
  /\ pc = "input"
  /\ obs \in [id : {"o1"}, coding : Codings, effectiveDateTime : {<<>>},
              valueQuantity : Quantities]
  /\ abnormal = <<>>
  /\ rankIdle /\ mapIdle /\ appIdle

Classify ==
  /\ pc = "input"
  /\ abnormal' = <<isAbnormal(obs)>>
  /\ pc' = "classified"
  /\ UNCHANGED <<obs, rankVars, mapVars, appVars>>

NextClassify == Classify
SpecClassify == InitClassify /\ [][NextClassify]_vars

(* PatientDots *)

PatientNames == <<"A", "B", "C", "D", "E", "F">>
Severities == {"red", "orange", "green"}

SeverityLists ==
  UNION {{[i \in 1..n |-> [id |-> PatientNames[i], severity |-> sev[i]]] :
            sev \in [1..n -> Severities]} : n \in 0..MaxPatients}

InitRank ==
  /\ pc = "input"
  /\ patients \in SeverityLists
  /\ displayedDots = <<>>
  /\ classifyIdle /\ mapIdle /\ appIdle

\* one render of PatientDots
Render ==
  /\ pc = "input"
  /\ displayedDots' = PatientDotsSorted(patients)
  /\ pc' = "rendered"
  /\ UNCHANGED <<patients, classifyVars, mapVars, appVars>>

NextRank == Render
SpecRank == InitRank /\ [][NextRank]_vars

(* fhirToGraph *)

ObsNames == <<"o1", "o2", "o3", "o4", "o5", "o6", "o7", "o8", "o9", "o10",
              "o11", "o12", "o13", "o14", "o15", "o16">>
EncNames == <<"e1", "e2", "e3", "e4", "e5", "e6", "e7", "e8">>
CondNames == <<"c1", "c2", "c3">>
MedNames == <<"m1", "m2", "m3">>

\* the i-th of n observations under stride k: its timestamp is (i * k) mod (n + 1),
\* absent when that is 0; strides coprime to n + 1 give pairwise distinct
\* timestamps (k = 1 oldest first, k = n newest first), the others give ties
ObservationAt(i, n, k) ==
  LET t == (i * k) % (n + 1)
  IN [id |-> ObsNames[i],
      coding |-> <<IF i % 2 = 0 THEN EGFR ELSE CREATININE>>,
      effectiveDateTime |-> IF t = 0 THEN <<>> ELSE <<t>>,
      valueQuantity |-> <<IF i % 2 = 0 THEN 298 + (i % 5) ELSE 14 + (i % 3)>>]

Reverse(s) == [i \in 1..Len(s) |-> s[Len(s) + 1 - i]]

\* the observations of every count and stride, listed first to last and last to
\* first
ObservationLists ==
  LET forward == UNION {{[i \in 1..n |-> ObservationAt(i, n, k)] : k \in 1..n} :
                          n \in 1..MaxObservations}
  IN {<<>>} \cup forward \cup {Reverse(os) : os \in forward}

Resources(names, n) == [i \in 1..n |-> [id |-> names[i]]]

\* bundles as the types declare them: every resource has an id, unique within
\* its kind
WellFormedBundles ==
  {[patient |-> [id |-> DEFAULT_PID], conditions |-> Resources(CondNames, nc),
    observations |-> os, medications |-> Resources(MedNames, nm),
    encounters |-> Resources(EncNames, ne)] :
      nc \in 0..MaxConditions, os \in ObservationLists,
      nm \in 0..MaxMedications, ne \in {0, 1, MaxEncounters}}

\* what the template literal `${prefix}-${r.id}` renders of a resource that came
\* without an id
MissingId == "undefined"

\* bundles as a server can send them: one resource of a bundle with a resource
\* of every kind lacks its id
MalformedBundles ==
  LET b == [patient |-> [id |-> DEFAULT_PID], conditions |-> Resources(CondNames, 2),
            observations |-> [i \in 1..2 |-> ObservationAt(i, 2, 1)],
            medications |-> Resources(MedNames, 1),
            encounters |-> Resources(EncNames, 1)]
  IN {[b EXCEPT !.patient.id = MissingId],
      [b EXCEPT !.conditions[2].id = MissingId],
      [b EXCEPT !.observations[1].id = MissingId],
      [b EXCEPT !.medications[1].id = MissingId],
      [b EXCEPT !.encounters[1].id = MissingId]}

MapBundles == WellFormedBundles \cup MalformedBundles

MaterializedUniverse ==
  {<<"patient", DEFAULT_PID>>, <<"obs", "o1">>, <<"med", "m1">>, <<"enc", "e1">>}

InitMap ==
  /\ pc = "input"
  /\ bundle \in MapBundles
  /\ alreadyMaterialized \in SUBSET MaterializedUniverse
  /\ delta = NoDelta
  /\ classifyIdle /\ rankIdle /\ appIdle

\* the caller maps the bundle against the set it holds
MapBundle ==
  /\ pc \in {"input", "merged"}
  /\ delta' = fhirToGraph(bundle, alreadyMaterialized)
  /\ pc' = IF pc = "input" THEN "mapped" ELSE "remapped"
  /\ UNCHANGED <<bundle, alreadyMaterialized, classifyVars, rankVars, appVars>>

\* n.forEach((node) => existingNodeIds.add(node.id))
MergeDelta ==
  /\ pc = "mapped"
  /\ alreadyMaterialized' = alreadyMaterialized \cup NodeIds(delta.nodes)
  /\ pc' = "merged"
  /\ UNCHANGED <<bundle, delta, classifyVars, rankVars, appVars>>

NextMap == MapBundle \/ MergeDelta
SpecMap == InitMap /\ [][NextMap]_vars

----------------------------------------------------------------------------
(* fhirToNodes.ts: simObsToNode *)

\* const step = obs._step ?? 0
StepOf(o) == IF o.step = <<>> THEN 0 ELSE o.step[1]

simObsToNode(o) ==
  [id |-> <<"obs", o.id>>,
   background |-> IF isAbnormal(o) THEN "#dc2626" ELSE "#16a34a",
   position |-> <<1440 + StepOf(o) * 20, 200 + (StepOf(o) % 5) * 80>>,
   live |-> TRUE]

----------------------------------------------------------------------------
(* App.tsx: the canvas state machine *)

MaxActivations == 2      \* patient activations in one run
MaxTicks == 2            \* timer ticks in one run

\* what GET /api/patients/severity answers
ServerSeverityList ==
  << [id |-> "synth-001", severity |-> "red"],
     [id |-> "synth-002", severity |-> "green"] >>

\* what GET /api/patient/{pid}/fhir answers
ServerBundle(pid) ==
  [patient |-> [id |-> pid],
   conditions |-> Resources(CondNames, 1),
   observations |-> << [id |-> "o1", coding |-> <<CREATININE>>,
                        effectiveDateTime |-> <<1>>, valueQuantity |-> <<16>>] >>,
   medications |-> IF pid = DEFAULT_PID THEN Resources(MedNames, 1) ELSE <<>>,
   encounters |-> <<>>]

\* what GET /api/simulate/{pid}/next?step=n may answer
StreamObservation(id, value, step) ==
  [id |-> id, coding |-> <<CREATININE>>, effectiveDateTime |-> <<>>,
   valueQuantity |-> <<value>>, step |-> step]
StreamObservations ==
  {StreamObservation("o1", 16, <<>>), StreamObservation("s1", 16, <<1>>),
   StreamObservation("s2", 15, <<0>>)}
Heartbeat == [type |-> "heartbeat", data |-> [id |-> ""]]
Messages ==
  {[type |-> "new_observation", data |-> o] : o \in StreamObservations}
    \cup {Heartbeat}

InitApp ==
  /\ pc = "app"
  /\ classifyIdle /\ rankIdle /\ mapIdle /\ appIdle

\* seeded fault: the polling effect has no cleanup, the previous timer stays set
RunEffectsNoCleanup(p) ==
  /\ nodes' = <<>>
  /\ edges' = <<>>
  /\ existingNodeIds' = {}
  /\ activation' = activation + 1
  /\ bundleFetches' = bundleFetches \cup {[pid |-> p, act |-> activation + 1]}
  /\ simStepRef' = 0
  /\ intervalId' = intervalId \cup {[pid |-> p, act |-> activation + 1]}
  /\ delivered' = <<>>

\* the load effect (lines 62-89) and the polling effect with the cleanup of the
\* previous one (lines 92-136), run for patient p
RunEffects(p) ==
  /\ nodes' = <<>>
  /\ edges' = <<>>
  /\ existingNodeIds' = {}
  /\ activation' = activation + 1
  /\ bundleFetches' = bundleFetches \cup {[pid |-> p, act |-> activation + 1]}
  /\ simStepRef' = 0
  /\ intervalId' = {[pid |-> p, act |-> activation + 1]}
  /\ delivered' = <<>>

HealthOk ==
  /\ pc = "app" /\ backendStatus = "checking"
  /\ backendStatus' = "connected"
  /\ severityFetch' = TRUE
  /\ RunEffects(activePid)
  /\ UNCHANGED <<pc, classifyVars, rankVars, mapVars, activePid, severityList,
                 simFetches, ticks>>

HealthFail ==
  /\ pc = "app" /\ backendStatus = "checking"
  /\ backendStatus' = "disconnected"
  /\ UNCHANGED <<pc, classifyVars, rankVars, mapVars, activePid, severityList, nodes,
                 edges, existingNodeIds, simStepRef, intervalId, bundleFetches,
                 simFetches, activation, severityFetch, ticks, delivered>>

SeverityResponse ==
  /\ pc = "app" /\ severityFetch
  /\ severityFetch' = FALSE
  /\ severityList' = ServerSeverityList
  /\ UNCHANGED <<pc, classifyVars, rankVars, mapVars, backendStatus, activePid, nodes,
                 edges, existingNodeIds, simStepRef, intervalId, bundleFetches,
                 simFetches, activation, ticks, delivered>>

SeverityFail ==
  /\ pc = "app" /\ severityFetch
  /\ severityFetch' = FALSE
  /\ UNCHANGED <<pc, classifyVars, rankVars, mapVars, backendStatus, activePid,
                 severityList, nodes, edges, existingNodeIds, simStepRef, intervalId,
                 bundleFetches, simFetches, activation, ticks, delivered>>

\* a click on the dot of another patient: onSelect={setActivePid}
SelectPatient(p) ==
  /\ pc = "app" /\ backendStatus = "connected"
  /\ \E i \in 1..Len(severityList) : severityList[i].id = p
  /\ p # activePid
  /\ activation < MaxActivations
  /\ activePid' = p
  /\ RunEffects(p)
  /\ UNCHANGED <<pc, classifyVars, rankVars, mapVars, backendStatus, severityList,
                 simFetches, severityFetch, ticks>>

\* .then((bundle) => { fhirToGraph(bundle); add ids; setNodes(n); setEdges(e) })
BundleResponse(r) ==
  /\ pc = "app" /\ r \in bundleFetches
  /\ LET g == fhirToGraph(ServerBundle(r.pid), {})
     IN /\ existingNodeIds' = existingNodeIds \cup NodeIds(g.nodes)
        /\ nodes' = g.nodes
        /\ edges' = g.edges
  /\ bundleFetches' = bundleFetches \ {r}
  /\ UNCHANGED <<pc, classifyVars, rankVars, mapVars, backendStatus, activePid,
                 severityList, simStepRef, intervalId, simFetches, activation,
                 severityFetch, ticks, delivered>>

\* .catch((err) => log(...))
BundleFail(r) ==
  /\ pc = "app" /\ r \in bundleFetches
  /\ bundleFetches' = bundleFetches \ {r}
  /\ UNCHANGED <<pc, classifyVars, rankVars, mapVars, backendStatus, activePid,
                 severityList, nodes, edges, existingNodeIds, simStepRef, intervalId,
                 simFetches, activation, severityFetch, ticks, delivered>>

\* setInterval fires poll: the request carries the step read now
poll(t) ==
  /\ pc = "app" /\ t \in intervalId
  /\ ticks < MaxTicks
  /\ ticks' = ticks + 1
  /\ simFetches' = simFetches \cup
       {[pid |-> t.pid, step |-> simStepRef, act |-> t.act, tick |-> ticks + 1]}
  /\ UNCHANGED <<pc, classifyVars, rankVars, mapVars, backendStatus, activePid,
                 severityList, nodes, edges, existingNodeIds, simStepRef, intervalId,
                 bundleFetches, activation, severityFetch, delivered>>

\* seeded fault: the live edge is not animated
LiveEdgeStill(pid, nid) ==
  [id |-> <<"e-patient", nid>>, source |-> <<"patient", pid>>, target |-> nid,
   animated |-> FALSE]

\* the edge handleObservation builds, in the closure of patient pid
LiveEdge(pid, nid) ==
  [id |-> <<"e-patient", nid>>, source |-> <<"patient", pid>>, target |-> nid,
   animated |-> TRUE]

\* seeded fault: the new node is put in front of the list
handleObservationPrepend(pid, msg) ==
  IF msg.type # "new_observation"
  THEN UNCHANGED <<nodes, edges, existingNodeIds>>
  ELSE LET newNode == simObsToNode(msg.data)
       IN IF newNode.id \notin existingNodeIds
          THEN /\ existingNodeIds' = existingNodeIds \cup {newNode.id}
               /\ nodes' = <<newNode>> \o nodes
               /\ edges' = Append(edges, LiveEdge(pid, newNode.id))
          ELSE UNCHANGED <<nodes, edges, existingNodeIds>>

\* seeded fault: the Materialized Set is not consulted
handleObservationNoDedup(pid, msg) ==
  IF msg.type # "new_observation"
  THEN UNCHANGED <<nodes, edges, existingNodeIds>>
  ELSE LET newNode == simObsToNode(msg.data)
       IN /\ existingNodeIds' = existingNodeIds \cup {newNode.id}
          /\ nodes' = Append(nodes, newNode)
          /\ edges' = Append(edges, LiveEdge(pid, newNode.id))

\* handleObservation(msg) in the closure of patient pid
handleObservation(pid, msg) ==
  IF msg.type # "new_observation"
  THEN UNCHANGED <<nodes, edges, existingNodeIds>>
  ELSE LET newNode == simObsToNode(msg.data)
       IN IF newNode.id \notin existingNodeIds
          THEN /\ existingNodeIds' = existingNodeIds \cup {newNode.id}
               /\ nodes' = Append(nodes, newNode)
               /\ edges' = Append(edges, LiveEdge(pid, newNode.id))
          ELSE UNCHANGED <<nodes, edges, existingNodeIds>>

\* .then((msg) => { simStepRef.current = step + 1; handleObservation(msg) })
ObservationResponse(r, msg) ==
  /\ pc = "app" /\ r \in simFetches
  /\ simFetches' = simFetches \ {r}
  /\ simStepRef' = r.step + 1
  /\ handleObservation(r.pid, msg)
  /\ delivered' = IF r.act = activation THEN Append(delivered, msg) ELSE delivered
  /\ UNCHANGED <<pc, classifyVars, rankVars, mapVars, backendStatus, activePid,
                 severityList, intervalId, bundleFetches, activation, severityFetch,
                 ticks>>

\* the entry log('Simulation poll error') leaves
PollError == [type |-> "poll_error", data |-> [id |-> ""]]

\* seeded fault: the step counter advances although the poll failed
ObservationFailAdvancing(r) ==
  /\ pc = "app" /\ r \in simFetches
  /\ simFetches' = simFetches \ {r}
  /\ simStepRef' = r.step + 1
  /\ delivered' = Append(delivered, PollError)
  /\ UNCHANGED <<pc, classifyVars, rankVars, mapVars, backendStatus, activePid,
                 severityList, nodes, edges, existingNodeIds, intervalId,
                 bundleFetches, activation, severityFetch, ticks>>

\* seeded fault: a failed poll stops the timer
ObservationFailFatal(r) ==
  /\ pc = "app" /\ r \in simFetches
  /\ simFetches' = simFetches \ {r}
  /\ delivered' = Append(delivered, PollError)
  /\ intervalId' = {}
  /\ UNCHANGED <<pc, classifyVars, rankVars, mapVars, backendStatus, activePid,
                 severityList, nodes, edges, existingNodeIds, simStepRef,
                 bundleFetches, activation, severityFetch, ticks>>

\* .catch(() => log('Simulation poll error'))
ObservationFail(r) ==
  /\ pc = "app" /\ r \in simFetches
  /\ simFetches' = simFetches \ {r}
  /\ delivered' = Append(delivered, PollError)
  /\ UNCHANGED <<pc, classifyVars, rankVars, mapVars, backendStatus, activePid,
                 severityList, nodes, edges, existingNodeIds, simStepRef, intervalId,
                 bundleFetches, activation, severityFetch, ticks>>

Next ==
  \/ HealthOk
  \/ HealthFail
  \/ SeverityResponse
  \/ SeverityFail
  \/ \E p \in Pids : SelectPatient(p)
  \/ \E r \in bundleFetches : BundleResponse(r)
  \/ \E r \in bundleFetches : BundleFail(r)
  \/ \E t \in intervalId : poll(t)
  \/ \E r \in simFetches, msg \in Messages : ObservationResponse(r, msg)
  \/ \E r \in simFetches : ObservationFail(r)

Spec == InitApp /\ [][Next]_vars

\* setInterval(poll, 15000): while a timer is set, it fires again
SpecLive == Spec /\ WF_vars(\E t \in intervalId : poll(t))

----------------------------------------------------------------------------
(* Properties of the pure functions *)

ObservationNodesOf(ns) == SelectSeq(ns, LAMBDA n : n.id[1] = "obs")
SatelliteNodesOf(ns) == SelectSeq(ns, LAMBDA n : n.id[1] # "patient")

\* C4: idempotent merge. No node that fhirToGraph(b, S) returns has an
\* identifier in S, and once the identifiers of the returned nodes are added
\* to S, mapping the same bundle again returns no node and no edge.
IdempotentMerge ==
  /\ pc \in {"mapped", "remapped"} =>
       \A i \in 1..Len(delta.nodes) : delta.nodes[i].id \notin alreadyMaterialized
  /\ pc = "remapped" => delta.nodes = <<>> /\ delta.edges = <<>>

\* the second mapping ran against a set that the first one extended with a
\* patient, an observation and an encounter, having skipped a medication
IdempotentMergeWitness ==
  /\ pc = "remapped"
  /\ <<"med", "m1">> \in alreadyMaterialized
  /\ Len(bundle.observations) = 13
  /\ Len(bundle.encounters) = 6
  /\ {<<"patient", DEFAULT_PID>>, <<"obs", "o13">>, <<"enc", "e5">>,
      <<"condition", "c1">>} \subseteq alreadyMaterialized
  /\ delta = NoDelta

\* C5: the five threshold rules are strict and direction-aware: creatinine,
\* potassium, HbA1c and BUN are abnormal iff the value is above 1.5, 5.5, 9.0
\* and 40; eGFR is abnormal iff the value is below 30; a value equal to the
\* cutoff is never abnormal.
StrictDirectionalThresholds ==
  (pc = "classified" /\ obs.coding # <<>> /\ obs.valueQuantity # <<>>) =>
    LET code == obs.coding[1]
        v == obs.valueQuantity[1]
    IN /\ code = "2160-0" => (abnormal[1] <=> v > 15)
       /\ code = "2823-3" => (abnormal[1] <=> v > 55)
       /\ code = "4548-4" => (abnormal[1] <=> v > 90)
       /\ code = "3094-0" => (abnormal[1] <=> v > 400)
       /\ code = "33914-3" => (abnormal[1] <=> v < 300)

\* an eGFR of 29.9 has been classified abnormal
StrictDirectionalThresholdsWitness ==
  /\ pc = "classified"
  /\ obs.coding = <<"33914-3">>
  /\ obs.valueQuantity = <<299>>
  /\ abnormal = <<TRUE>>

\* C6: an observation whose code has no threshold rule (an unknown, empty or
\* missing code) or whose value is missing is never abnormal.
FailClosed ==
  (/\ pc = "classified"
   /\ \/ obs.coding = <<>>
      \/ obs.valueQuantity = <<>>
      \/ obs.coding[1] \notin {"2160-0", "2823-3", "33914-3", "4548-4", "3094-0"})
  => abnormal = <<FALSE>>

\* a value above every cutoff under an unknown code has been classified
FailClosedWitness ==
  /\ pc = "classified"
  /\ obs.coding = <<UnknownCode>>
  /\ obs.valueQuantity = <<401>>
  /\ abnormal = <<FALSE>>

DistinctTimes(os) ==
  \A i, j \in 1..Len(os) : i # j => TimeOf(os[i]) # TimeOf(os[j])

\* the observations that fewer than n others are more recent than
MostRecent(os, n) ==
  {os[i].id : i \in {j \in 1..Len(os) :
     Cardinality({k \in 1..Len(os) : TimeOf(os[k]) > TimeOf(os[j])}) < n}}

\* C7: mapped against the empty set, a bundle of n observations with pairwise
\* distinct timestamps yields min(n, 12) Observation nodes, those of the
\* min(n, 12) most recent observations.
ObservationCap ==
  (pc = "mapped" /\ alreadyMaterialized = {} /\ DistinctTimes(bundle.observations))
  => LET shown == ObservationNodesOf(delta.nodes)
     IN /\ Len(shown) = Min(Len(bundle.observations), 12)
        /\ {shown[i].id[2] : i \in 1..Len(shown)}
             = MostRecent(bundle.observations, 12)

\* 13 observations, the first of them the oldest: 12 nodes, none for the first
ObservationCapWitness ==
  /\ pc = "mapped" /\ alreadyMaterialized = {}
  /\ Len(bundle.observations) = 13
  /\ DistinctTimes(bundle.observations)
  /\ \A i \in 2..13 : TimeOf(bundle.observations[i]) > TimeOf(bundle.observations[1])
  /\ Len(ObservationNodesOf(delta.nodes)) = 12
  /\ <<"obs", "o1">> \notin NodeIds(delta.nodes)

\* the place of an identifier in ascending identifier order
IdRank(id) ==
  IF \E i \in 1..Len(ObsNames) : ObsNames[i] = id
  THEN CHOOSE i \in 1..Len(ObsNames) : ObsNames[i] = id
  ELSE 0

\* the observations that fewer than n others come before, by time descending
\* and, at equal times, by identifier ascending
FirstByTimeThenId(os, n) ==
  {os[j].id : j \in {j \in 1..Len(os) :
     Cardinality({k \in 1..Len(os) :
        \/ TimeOf(os[k]) > TimeOf(os[j])
        \/ TimeOf(os[k]) = TimeOf(os[j]) /\ IdRank(os[k].id) < IdRank(os[j].id)}) < n}}

\* the same, equal times in the order the bundle lists them
FirstByTimeThenListing(os, n) ==
  {os[j].id : j \in {j \in 1..Len(os) :
     Cardinality({k \in 1..Len(os) :
        \/ TimeOf(os[k]) > TimeOf(os[j])
        \/ TimeOf(os[k]) = TimeOf(os[j]) /\ k < j}) < n}}

ObservationIdsOf(ns) ==
  {ObservationNodesOf(ns)[i].id[2] : i \in 1..Len(ObservationNodesOf(ns))}

\* C17 as the specification states it: observations of equal time are ordered
\* by identifier ascending before the first 12 are taken, so the observations
\* selected are the same when the bundle lists them in the reverse order.
TiesBrokenByIdentifier ==
  (pc = "mapped" /\ alreadyMaterialized = {}) =>
    /\ ObservationIdsOf(delta.nodes) = FirstByTimeThenId(bundle.observations, 12)
    /\ ObservationIdsOf(delta.nodes) = ObservationIdsOf(
         fhirToGraph([bundle EXCEPT !.observations = Reverse(@)], {}).nodes)

\* C17: observations of equal time stay in the order in which the bundle lists
\* them: the observations selected are the first 12 by time descending and, at
\* equal times, by place in the bundle.
TiesKeepListingOrder ==
  (pc = "mapped" /\ alreadyMaterialized = {}) =>
    ObservationIdsOf(delta.nodes) = FirstByTimeThenListing(bundle.observations, 12)

\* 13 observations listed o13 to o1, the seven odd ones at one time and the six
\* even ones at an older one: o2, listed last, is the one left out
TiesKeepListingOrderWitness ==
  /\ pc = "mapped" /\ alreadyMaterialized = {}
  /\ Len(bundle.observations) = 13
  /\ bundle.observations[1].id = "o13"
  /\ \A i \in 1..13 :
       TimeOf(bundle.observations[i]) = IF i % 2 = 1 THEN 7 ELSE 0
  /\ ObservationIdsOf(delta.nodes) = {ObsNames[i] : i \in (1..13) \ {2}}
  /\ ObservationIdsOf(delta.nodes) # FirstByTimeThenId(bundle.observations, 12)

NodesOfKind(ns, kind) == SelectSeq(ns, LAMBDA n : n.id[1] = kind)

\* C18 as the specification states it: mapped against the empty set, a bundle
\* yields a node for the Patient, for each Condition, each Medication and each
\* Encounter: k encounters give k Encounter nodes.
EveryEncounterMapped ==
  (pc = "mapped" /\ alreadyMaterialized = {}) =>
    /\ Len(NodesOfKind(delta.nodes, "patient")) = 1
    /\ Len(NodesOfKind(delta.nodes, "condition")) = Len(bundle.conditions)
    /\ Len(NodesOfKind(delta.nodes, "med")) = Len(bundle.medications)
    /\ Len(NodesOfKind(delta.nodes, "enc")) = Len(bundle.encounters)

\* C18: mapped against the empty set, a bundle yields a node for the Patient,
\* for each Condition and each Medication, and for the first 5 Encounters it
\* lists: k encounters give min(k, 5) Encounter nodes.
EncounterCap ==
  (pc = "mapped" /\ alreadyMaterialized = {}) =>
    /\ Len(NodesOfKind(delta.nodes, "patient")) = 1
    /\ Len(NodesOfKind(delta.nodes, "condition")) = Len(bundle.conditions)
    /\ Len(NodesOfKind(delta.nodes, "med")) = Len(bundle.medications)
    /\ LET shown == NodesOfKind(delta.nodes, "enc")
       IN /\ Len(shown) = Min(Len(bundle.encounters), 5)
          /\ \A i \in 1..Len(shown) : shown[i].id = <<"enc", bundle.encounters[i].id>>

\* six encounters: nodes for e1 to e5, none for e6
EncounterCapWitness ==
  /\ pc = "mapped" /\ alreadyMaterialized = {}
  /\ Len(bundle.encounters) = 6
  /\ Len(bundle.conditions) = 1 /\ Len(bundle.medications) = 1
  /\ Len(NodesOfKind(delta.nodes, "enc")) = 5
  /\ <<"enc", "e5">> \in NodeIds(delta.nodes)
  /\ <<"enc", "e6">> \notin NodeIds(delta.nodes)

LacksIdentifier(b) ==
  \/ b.patient.id = MissingId
  \/ \E r \in Range(b.conditions) \cup Range(b.medications) \cup Range(b.encounters) :
       r.id = MissingId
  \/ \E o \in Range(b.observations) : o.id = MissingId

\* C19: a bundle in which a resource lacks its identifier is rejected as a
\* whole: the mapping returns no node and no edge.
MalformedBundleRejected ==
  (pc \in {"mapped", "remapped"} /\ LacksIdentifier(bundle)) => delta = NoDelta

\* C8: every non-Patient node returned is the target of exactly one returned
\* edge, whose source is the bundle's Patient node, and there are as many edges
\* as non-Patient nodes.
OneEdgePerSatellite ==
  pc \in {"mapped", "remapped"} =>
    LET sat == SatelliteNodesOf(delta.nodes)
    IN /\ \A i \in 1..Len(sat) :
            /\ Cardinality({j \in 1..Len(delta.edges) :
                              delta.edges[j].target = sat[i].id}) = 1
            /\ \A j \in 1..Len(delta.edges) :
                 delta.edges[j].target = sat[i].id =>
                   delta.edges[j].source = <<"patient", bundle.patient.id>>
       /\ Len(delta.edges) = Len(sat)

\* a delta with satellites of every kind and no Patient node, one resource of
\* each other kind having been skipped
OneEdgePerSatelliteWitness ==
  /\ pc = "mapped"
  /\ alreadyMaterialized = MaterializedUniverse
  /\ Len(delta.nodes) >= 12
  /\ {<<"condition", "c1">>, <<"obs", "o2">>, <<"enc", "e2">>}
       \subseteq NodeIds(delta.nodes)
  /\ Len(delta.edges) = Len(delta.nodes)

\* C9: the dots are a permutation of the patients, red before orange before
\* green, equal severities in input order; the patients prop is not reordered.
\* [A red, B green, C red, D orange] is shown as A, C, D, B.
StableSeverityRanking ==
  pc = "rendered" =>
    LET n == Len(patients)
        rank(p) == CASE p.severity = "red" -> 0
                     [] p.severity = "orange" -> 1
                     [] p.severity = "green" -> 2
        pos(p) == CHOOSE i \in 1..n : patients[i] = p
    IN /\ Len(displayedDots) = n
       /\ Range(displayedDots) = Range(patients)
       /\ \A i, j \in 1..n : i < j =>
            /\ rank(displayedDots[i]) <= rank(displayedDots[j])
            /\ rank(displayedDots[i]) = rank(displayedDots[j]) =>
                 pos(displayedDots[i]) < pos(displayedDots[j])
       /\ \A i \in 1..n : patients[i].id = PatientNames[i]
       /\ [i \in 1..n |-> patients[i].severity] = <<"red", "green", "red", "orange">>
            => [i \in 1..n |-> displayedDots[i].id] = <<"A", "C", "D", "B">>

StableSeverityRankingWitness ==
  /\ pc = "rendered"
  /\ [i \in 1..Len(patients) |-> patients[i].severity]
       = <<"red", "green", "red", "orange">>
  /\ [i \in 1..Len(displayedDots) |-> displayedDots[i].id] = <<"A", "C", "D", "B">>

----------------------------------------------------------------------------
(* Properties of the canvas state machine *)

\* C1: a streamed-observation response that was requested before a patient
\* switch and is delivered after it is discarded: the step that consumes it
\* changes neither the nodes, the edges nor the Materialized Set.
StaleObservationDiscarded ==
  [][\A r \in simFetches :
       (r \notin simFetches' /\ r.act < activation) =>
         (nodes' = nodes /\ edges' = edges /\ existingNodeIds' = existingNodeIds)]_vars

\* C2: the canvas and the Materialized Set never hold the Patient node of a
\* patient other than the active one: a bundle response of the previous
\* patient is dropped.
SinglePatientCanvas ==
  \A p \in Pids \ {activePid} :
    <<"patient", p>> \notin (NodeIds(nodes) \cup existingNodeIds)

TimesDelivered(id) ==
  Cardinality({i \in 1..Len(delivered) :
                 delivered[i].type = "new_observation" /\ delivered[i].data.id = id})

\* C3: an observation identifier that the stream handler of the current
\* activation received two or more times is on the canvas as exactly one node
\* and the target of exactly one edge.
DuplicateDeliveryOneNode ==
  \A o \in StreamObservations :
    TimesDelivered(o.id) >= 2 =>
      /\ Cardinality({i \in 1..Len(nodes) : nodes[i].id = <<"obs", o.id>>}) = 1
      /\ Cardinality({i \in 1..Len(edges) : edges[i].target = <<"obs", o.id>>}) = 1

\* C10: at most one observation request is in flight at any time.
OneRequestInFlight == Cardinality(simFetches) <= 1

LiveNodesOf(ns) == SelectSeq(ns, LAMBDA n : n.live)

\* C11: a streamed observation is put at the end of the node list, whatever its
\* _step, and nothing reorders the list: every step either leaves the node list
\* as it is, or appends one streamed node to it (the nodes already there keep
\* their places and content), or replaces it by a list with no streamed node
\* (a reset or a bundle load). So the streamed nodes on the canvas are always
\* in the order of their delivery.
AppendedInDeliveryOrder ==
  [][\/ nodes' = nodes
     \/ \E m \in Messages :
          /\ m.type = "new_observation"
          /\ nodes' = Append(nodes, simObsToNode(m.data))
     \/ LiveNodesOf(nodes') = <<>>]_vars

\* s1 (_step 1) was delivered before s2 (_step 0), and is before it on the canvas
AppendedInDeliveryOrderWitness ==
  /\ Len(delivered) = 2
  /\ delivered[1].data.id = "s1" /\ delivered[2].data.id = "s2"
  /\ Len(nodes) = 6
  /\ LiveNodesOf(SubSeq(nodes, 1, 4)) = <<>>
  /\ nodes[5] = simObsToNode(StreamObservation("s1", 16, <<1>>))
  /\ nodes[6] = simObsToNode(StreamObservation("s2", 15, <<0>>))
  /\ nodes[6].position[1] < nodes[5].position[1]

\* C12 as the specification states it: the step that accepts a streamed
\* observation adds exactly one edge, from a Patient node to the new node,
\* animated iff the classifier reports the observation abnormal.
LiveEdgeAnimatedIffAbnormal ==
  [][\A m \in Messages :
       (m.type = "new_observation" /\ nodes' = Append(nodes, simObsToNode(m.data)))
       => \E pid \in Pids :
            /\ edges' = Append(edges, [LiveEdge(pid, <<"obs", m.data.id>>)
                                         EXCEPT !.animated = isAbnormal(m.data)])]_vars

\* C12: the step that accepts a streamed observation adds exactly one edge,
\* from patient-<pid of the request> to the new node, and that edge is animated
\* whatever the classifier reports.
LiveEdgeAlwaysAnimated ==
  [][\A m \in Messages :
       (m.type = "new_observation" /\ nodes' = Append(nodes, simObsToNode(m.data)))
       => \E r \in simFetches \ simFetches' :
            /\ edges' = Append(edges,
                 [id |-> <<"e-patient", <<"obs", m.data.id>>>>,
                  source |-> <<"patient", r.pid>>,
                  target |-> <<"obs", m.data.id>>,
                  animated |-> TRUE])]_vars

\* s2, a creatinine of 1.5 (not abnormal), is on the canvas as a green node at
\* the end of its one edge, which is animated
LiveEdgeAlwaysAnimatedWitness ==
  \E i \in 1..Len(nodes) :
    /\ nodes[i] = simObsToNode(StreamObservation("s2", 15, <<0>>))
    /\ ~isAbnormal(StreamObservation("s2", 15, <<0>>))
    /\ nodes[i].background = "#16a34a"
    /\ \E j \in 1..Len(edges) :
         /\ edges[j].target = nodes[i].id /\ edges[j].animated
         /\ \A k \in 1..Len(edges) : edges[k].target = nodes[i].id => k = j

\* C13: a streamed observation is materialized only once the bundle of the
\* active patient has been: whenever a streamed node is on the canvas, so is the
\* Patient node of the active patient (never while the load is pending or has
\* failed).
StreamOnlyAfterLoad ==
  LiveNodesOf(nodes) # <<>> => <<"patient", activePid>> \in NodeIds(nodes)

\* C14: a failed observation poll changes nothing on the canvas: the step that
\* logs the poll error leaves the nodes, the edges, the Materialized Set and
\* the step counter as they were.
FailedPollChangesNothing ==
  [][delivered' = Append(delivered, PollError) =>
       /\ nodes' = nodes /\ edges' = edges
       /\ existingNodeIds' = existingNodeIds
       /\ simStepRef' = simStepRef]_vars

\* a poll failed after s1 had been streamed: s1 is still on the canvas, the
\* step counter still 1
FailedPollChangesNothingWitness ==
  /\ Len(delivered) = 2
  /\ delivered[1].type = "new_observation" /\ delivered[1].data.id = "s1"
  /\ delivered[2] = PollError
  /\ <<"obs", "s1">> \in NodeIds(nodes) \cap existingNodeIds
  /\ Len(edges) = Len(nodes) - 1
  /\ simStepRef = 1

\* C15: no poll failure is fatal to streaming. While the backend is connected
\* the timer of the active patient stays set, in every state and so after any
\* number of failed polls; it goes on ticking (here: up to the MaxTicks ticks of
\* a run); and a response that carries an observation not yet in the
\* Materialized Set puts that observation's node on the canvas, whatever
\* failed before.
PollFailureNotFatal ==
  /\ [](backendStatus = "connected" =>
          intervalId = {[pid |-> activePid, act |-> activation]})
  /\ [][\A m \in Messages :
          (/\ m.type = "new_observation"
           /\ delivered' = Append(delivered, m)
           /\ <<"obs", m.data.id>> \notin existingNodeIds)
          => <<"obs", m.data.id>> \in NodeIds(nodes')]_vars
  /\ (backendStatus = "connected") ~> (ticks = MaxTicks)

\* the first poll failed, the next one to resolve brought s1, which is on the
\* canvas
PollFailureNotFatalWitness ==
  /\ activation = 1 /\ ticks = 2
  /\ Len(delivered) = 2
  /\ delivered[1] = PollError
  /\ delivered[2].type = "new_observation" /\ delivered[2].data.id = "s1"
  /\ <<"obs", "s1">> \in NodeIds(nodes)
  /\ intervalId = {[pid |-> activePid, act |-> 1]}

\* C16: a patient switch stops the old patient's timer. At most one polling
\* timer is set at any time, it is the timer of the active patient's current
\* activation, and every observation request that is issued is a request for
\* the patient active at that moment: none for the patient switched away from.
OnePollingTimer ==
  /\ [](/\ Cardinality(intervalId) <= 1
         /\ \A t \in intervalId : t.pid = activePid /\ t.act = activation)
  /\ [][\A r \in simFetches' \ simFetches :
          r.pid = activePid /\ r.act = activation]_vars

\* after the switch from synth-001 to synth-002, with a request of synth-001
\* still in flight, the one timer is that of synth-002 and it has issued a request
OnePollingTimerWitness ==
  /\ activePid = "synth-002" /\ activation = 2
  /\ intervalId = {[pid |-> "synth-002", act |-> 2]}
  /\ \E r \in simFetches : r.pid = "synth-001" /\ r.act = 1 /\ r.tick = 1
  /\ \E r \in simFetches : r.pid = "synth-002" /\ r.act = 2 /\ r.tick = 2

\* C20: in every reachable state the Materialized Set is exactly the set of
\* the identifiers of the nodes on the canvas.
MaterializedSetIsCanvas == existingNodeIds = NodeIds(nodes)

\* C21: no edge on the canvas dangles: the source and the target of every edge
\* are identifiers of nodes on the canvas; the edge of a streamed observation
\* starts at the Patient node that the bundle of the active patient put there.
NoDanglingEdges ==
  \A i \in 1..Len(edges) :
    /\ edges[i].source \in NodeIds(nodes)
    /\ edges[i].target \in NodeIds(nodes)

\* the responses the poll of the current activation has received
Deliveries ==
  Cardinality({i \in 1..Len(delivered) : delivered[i].type # "poll_error"})

\* C22: within an activation the step counter is the number of responses
\* delivered since the activation began, and so is the step every request is
\* sent with: the first request after a switch carries step 0 whatever is still
\* in flight for the previous patient, and each delivery advances the step by
\* exactly one.
StepCountsDeliveries ==
  /\ [](simStepRef = Deliveries)
  /\ [][\A r \in simFetches' \ simFetches : r.step = Deliveries]_vars

\* C23: node identifiers on the canvas are unique: no two places of the node
\* list hold the same identifier (kind and resource identifier), after any
\* sequence of activations, bundle responses and streamed observations.
UniqueNodeIds ==
  \A i, j \in 1..Len(nodes) : nodes[i].id = nodes[j].id => i = j

\* after the bundle was loaded, o1 (which the bundle holds too) and s1 were
\* streamed: the canvas has the bundle's o1 once, and s1
UniqueNodeIdsWitness ==
  /\ Len(delivered) = 2
  /\ delivered[1].type = "new_observation" /\ delivered[1].data.id = "o1"
  /\ delivered[2].type = "new_observation" /\ delivered[2].data.id = "s1"
  /\ [i \in 1..Len(nodes) |-> nodes[i].id] =
       <<<<"patient", "synth-001">>, <<"condition", "c1">>, <<"obs", "o1">>,
         <<"med", "m1">>, <<"obs", "s1">>>>
  /\ ~nodes[3].live

====
